---- MODULE Spec2Model ----
(***************************************************************************)
(* ThermoSense backend: the advisory path (backend/main.py get_advice and  *)
(* backend/gemini_advisor.py get_gemini_advice) and the sensor reader      *)
(* (backend/sensor_reader.py SensorReader).                                *)
(*                                                                         *)
(* Units.  Temperatures are integers in hundredths of a degree Celsius     *)
(* (45.0 C = 4500).  Health impact is an integer in units of 1e-5          *)
(* (0.15 = 15000); the raw output of the predictive model is in units of   *)
(* 1e-6 so that round(float(impact), 5) is a real conversion.              *)
(* An optional Python value is << >> for None and <<v>> for the value v.   *)
(***************************************************************************)
EXTENDS Integers, Sequences, FiniteSets, TLC

(***************************************************************************)
(* Bounds of the model                                                     *)
(***************************************************************************)
\* largest number of history appends followed in one behaviour
MaxHistory == 2
\* longest sensor list the hardware monitor returns
MaxSensors == 2

(***************************************************************************)
(* Python values                                                           *)
(***************************************************************************)
None == << >>

Some(v) == <<v>>

Val(x) == x[1]

\* truth value of an optional number in a Python condition: None and 0 are false
Truthy(x) == x # None /\ Val(x) # 0

Min(a, b) == IF a <= b THEN a ELSE b

(***************************************************************************)
(* Inputs the requests are drawn from                                      *)
(***************************************************************************)
BatteryTemps == {-1000, 2500, 3100, 3800, 3850, 4000, 4050, 4500, 4550, 9000}

CpuTemps == {None, Some(0), Some(6500), Some(7050), Some(8500), Some(8550), Some(20000)}

DeviceStates == {"idle", "charging"}

\* the requests of /api/advice are drawn from a part of these sets
AdviceBatteryTemps == {-1000, 3100, 3850, 4550}

AdviceCpuTemps == {None, Some(8550)}

AdviceServiceOutcomes == {"ok", "call_raise"}

\* what the external service does with one request: the client object cannot
\* be built, generate_content raises, the response has no text, or it answers
ServiceOutcomes == {"ok", "init_raise", "call_raise", "text_raise"}

\* what the predictive-model step does: one of its three stages raises, or
\* model.predict returns a raw value (units of 1e-6)
ModelFailures == {"load_raise", "encode_raise", "predict_raise"}

ModelValues == {-12000, 0, 34567, 150000, 150004, 150006, 200000}

ModelOutcomes == ModelFailures \cup {Some(v) : v \in ModelValues}

HistoryOutcomes == {"ok", "raise"}

(***************************************************************************)
(* gemini_advisor.py                                                       *)
(***************************************************************************)
\* number of generate_content calls one get_gemini_advice makes
ServiceCalls(svc) == IF svc = "init_raise" THEN 0 ELSE 1

PrimaryAlertMutant(battery_temp, cpu_temp) ==
    IF battery_temp > 4500 \/ (Truthy(cpu_temp) /\ Val(cpu_temp) > 8500)
    THEN [alert_level |-> "danger",
          optional_action |-> Some("Immediate cooling required - shut down intensive tasks")]
    ELSE IF battery_temp > 4000 \/ (Truthy(cpu_temp) /\ Val(cpu_temp) > 7000)
    THEN [alert_level |-> "warning",
          optional_action |-> Some("Monitor temperature and reduce workload")]
    ELSE [alert_level |-> "safe", optional_action |-> None]

\* lines 41-50: alert level and action from the fixed thresholds
PrimaryAlert(battery_temp, cpu_temp) ==
    IF battery_temp > 4500 \/ (Truthy(cpu_temp) /\ Val(cpu_temp) > 8500)
    THEN [alert_level |-> "danger",
          optional_action |-> Some("Immediate cooling required - shut down intensive tasks")]
    ELSE IF battery_temp > 3800 \/ (Truthy(cpu_temp) /\ Val(cpu_temp) > 7000)
    THEN [alert_level |-> "warning",
          optional_action |-> Some("Monitor temperature and reduce workload")]
    ELSE [alert_level |-> "safe", optional_action |-> None]

\* lines 52-59: the rule score before the cap
ImpactScore(battery_temp, device_state, cpu_temp) ==
    (IF battery_temp > 2500 THEN (battery_temp - 2500) * 3 ELSE 0)
    + (IF device_state = "charging" /\ battery_temp > 3000 THEN 2000 ELSE 0)
    + (IF Truthy(cpu_temp) /\ Val(cpu_temp) > 6000 THEN Val(cpu_temp) - 6000 ELSE 0)

\* lines 61-66: the advisory of the primary path
PrimaryAdvice(battery_temp, device_state, cpu_temp) ==
    [natural_language_tip |-> "service_text",
     alert_level |-> PrimaryAlert(battery_temp, cpu_temp).alert_level,
     optional_action |-> PrimaryAlert(battery_temp, cpu_temp).optional_action,
     predicted_health_impact |->
         Min(ImpactScore(battery_temp, device_state, cpu_temp), 15000)]

FallbackAdviceMutant(battery_temp) ==
    IF battery_temp > 4500
    THEN [natural_language_tip |-> "fallback_high_temperature_text",
          alert_level |-> "danger",
          optional_action |-> Some("Stop charging and close heavy applications"),
          predicted_health_impact |-> 10000]
    ELSE [natural_language_tip |-> "fallback_normal_range_text",
          alert_level |-> "safe",
          optional_action |-> None,
          predicted_health_impact |-> 2000]

\* lines 68-85: the advisory of the except branch
FallbackAdvice(battery_temp) ==
    IF battery_temp > 4000
    THEN [natural_language_tip |-> "fallback_high_temperature_text",
          alert_level |-> "danger",
          optional_action |-> Some("Stop charging and close heavy applications"),
          predicted_health_impact |-> 10000]
    ELSE [natural_language_tip |-> "fallback_normal_range_text",
          alert_level |-> "safe",
          optional_action |-> None,
          predicted_health_impact |-> 2000]

\* lines 12-85: the whole function; every raise inside the try ends in the
\* except branch, so the function itself has no raising outcome
get_gemini_advice(battery_temp, device_state, cpu_temp, svc) ==
    IF svc = "ok"
    THEN PrimaryAdvice(battery_temp, device_state, cpu_temp)
    ELSE FallbackAdvice(battery_temp)

(***************************************************************************)
(* main.py                                                                 *)
(***************************************************************************)
\* round(x, 5) of a value given in units of 1e-6, result in units of 1e-5
\* (ties to even)
Round5(x) ==
    LET q == x \div 10
        r == x % 10
    IN  IF r < 5 THEN q
        ELSE IF r > 5 THEN q + 1
        ELSE IF q % 2 = 0 THEN q ELSE q + 1

\* lines 115-121: the response combines the model's impact with the advice
Response(impact, advice) ==
    [predicted_health_impact |-> Round5(impact),
     alert_level |-> advice.alert_level,
     natural_language_tip |-> advice.natural_language_tip,
     optional_action |-> advice.optional_action]

VARIABLES
    gemini,       \* the last direct call of get_gemini_advice and its result
    api,          \* the last /api/advice request and how it ended
    appended,     \* number of records add_advisory has stored
    is_windows,   \* SensorReader.is_windows
    wmi_client,   \* SensorReader.wmi_client: "None" or the namespace it is bound to
    battery,      \* the last get_battery_info call and its result
    temperature   \* the last get_temperature_info call and its result

vars == <<gemini, api, appended, is_windows, wmi_client, battery, temperature>>

NoCall == [called |-> FALSE]

\* SensorReader.__init__: the client is bound to OpenHardwareMonitor, else to
\* root\WMI, else left None; off Windows no client is created
SensorReaderInit ==
    \E windows \in BOOLEAN, ohm_ok \in BOOLEAN, wmi_ok \in BOOLEAN :
        /\ is_windows = windows
        /\ wmi_client = IF ~windows THEN "None"
                        ELSE IF ohm_ok THEN "OpenHardwareMonitor"
                        ELSE IF wmi_ok THEN "WMI"
                        ELSE "None"

Init ==
    /\ gemini = NoCall
    /\ api = NoCall
    /\ appended = 0
    /\ SensorReaderInit
    /\ battery = NoCall
    /\ temperature = NoCall

\* one direct call of get_gemini_advice
GetGeminiAdvice ==
    \E bt \in BatteryTemps, ds \in DeviceStates, cpu \in CpuTemps,
       svc \in ServiceOutcomes :
        /\ gemini' = [called |-> TRUE,
                      battery_temp |-> bt, device_state |-> ds, cpu_temp |-> cpu,
                      service |-> svc,
                      calls |-> ServiceCalls(svc),
                      raised |-> FALSE,
                      result |-> get_gemini_advice(bt, ds, cpu, svc)]
        /\ UNCHANGED <<api, appended, is_windows, wmi_client, battery, temperature>>

\* lines 87-133: how one /api/advice request ends.  Every exception raised
\* inside the try (a stage of the model step, the history append) reaches the
\* handler's except clause, which raises HTTPException(500).
\*   advice:   what get_gemini_advice returned, once it was called
\*   computed: the response built at lines 116-121, once it exists
\*   body:     the response returned to the caller (None for HTTP 500)
get_advice(bt, ds, cpu, mdl, svc, hist) ==
    LET req == [called |-> TRUE,
                battery_temp |-> bt, device_state |-> ds, cpu_temp |-> cpu,
                model |-> mdl, service |-> svc, history |-> hist]
    IN  IF mdl \in ModelFailures
        THEN req @@ [status |-> 500, service_calls |-> 0, advice |-> None,
                     computed |-> None,
                     append_tried |-> FALSE, stored |-> FALSE, body |-> None]
        ELSE LET advice   == get_gemini_advice(bt, ds, cpu, svc)
                 response == Response(Val(mdl), advice)
             IN  IF hist = "raise"
                 THEN req @@ [status |-> 500, service_calls |-> ServiceCalls(svc),
                              advice |-> Some(advice), computed |-> Some(response),
                              append_tried |-> TRUE, stored |-> FALSE, body |-> None]
                 ELSE req @@ [status |-> 200, service_calls |-> ServiceCalls(svc),
                              advice |-> Some(advice), computed |-> Some(response),
                              append_tried |-> TRUE, stored |-> TRUE,
                              body |-> Some(response)]

\* one /api/advice request
GetAdvice ==
    \E bt \in AdviceBatteryTemps, ds \in DeviceStates, cpu \in AdviceCpuTemps,
       mdl \in ModelOutcomes, svc \in AdviceServiceOutcomes,
       hist \in HistoryOutcomes :
        /\ appended < MaxHistory
        /\ api' = get_advice(bt, ds, cpu, mdl, svc, hist)
        /\ appended' = IF api'.stored THEN appended + 1 ELSE appended
        /\ UNCHANGED <<gemini, is_windows, wmi_client, battery, temperature>>

(***************************************************************************)
(* sensor_reader.py: battery                                               *)
(***************************************************************************)
\* what the battery provider does, as <<kind, batteries>>: the WMI connection
\* raises, the Win32_Battery query raises, or it reports the batteries (none,
\* or those of which the first is used)
BatteryFailures == {<<"connect_raise", << >> >>, <<"query_raise", << >> >>}

ReportedLevels == {None, Some(0), Some(1), Some(50), Some(100)}

ReportedStatus == {None, Some(1), Some(2), Some(6), Some(10), Some(11), Some(12)}

ReportedVoltage == {None, Some(11400)}

Batteries == [EstimatedChargeRemaining : ReportedLevels,
              BatteryStatus : ReportedStatus,
              DesignVoltage : ReportedVoltage]

\* lines 136-151: status code to text
BatteryStatusText(status_code) ==
    IF status_code = None THEN "Unknown"
    ELSE CASE Val(status_code) = 1 -> "Discharging"
           [] Val(status_code) = 2 -> "AC Connected"
           [] Val(status_code) = 3 -> "Fully Charged"
           [] Val(status_code) = 4 -> "Low"
           [] Val(status_code) = 5 -> "Critical"
           [] Val(status_code) = 6 -> "Charging"
           [] Val(status_code) = 7 -> "Charging High"
           [] Val(status_code) = 8 -> "Charging Low"
           [] Val(status_code) = 9 -> "Charging Critical"
           [] Val(status_code) = 10 -> "Unknown"
           [] Val(status_code) = 11 -> "Partially Charged"
           [] OTHER -> "Unknown"

\* lines 153-162: the simulated reading; level and charging are random
FallbackBatteryInfo(level, charging) ==
    [level |-> Some(level), status |-> "Unknown", charging |-> charging,
     voltage |-> None, source |-> "simulated"]

\* lines 33-40: the reading built from the first reported battery;
\* "EstimatedChargeRemaining or 75" replaces None and 0 by 75
WmiBatteryInfo(b) ==
    [level |-> IF Truthy(b.EstimatedChargeRemaining)
               THEN b.EstimatedChargeRemaining ELSE Some(75),
     status |-> BatteryStatusText(b.BatteryStatus),
     charging |-> (b.BatteryStatus = Some(6)),
     voltage |-> b.DesignVoltage,
     source |-> "WMI"]

BatteryReports == {<<"batteries", << >> >>} \cup {<<"batteries", <<b>> >> : b \in Batteries}

\* lines 22-44: one call of get_battery_info
get_battery_info(windows, provider, level, charging) ==
    IF ~windows THEN FallbackBatteryInfo(level, charging)
    ELSE IF provider \in BatteryFailures THEN FallbackBatteryInfo(level, charging)
    ELSE IF provider[2] = << >> THEN FallbackBatteryInfo(level, charging)
    ELSE WmiBatteryInfo(provider[2][1])

GetBatteryInfo ==
    \E provider \in BatteryFailures \cup BatteryReports,
       level \in 70..95, charging \in BOOLEAN :
        /\ battery' = [called |-> TRUE,
                       provider |-> IF is_windows THEN provider
                                    ELSE <<"not_read", << >> >>,
                       result |-> get_battery_info(is_windows, provider, level, charging)]
        /\ UNCHANGED <<gemini, api, appended, is_windows, wmi_client, temperature>>

(***************************************************************************)
(* sensor_reader.py: temperatures                                          *)
(***************************************************************************)
\* a sensor name is a sequence of characters
Lower1(c) ==
    CASE c = "B" -> "b" [] c = "C" -> "c" [] c = "G" -> "g" [] c = "P" -> "p"
      [] c = "S" -> "s" [] c = "U" -> "u" [] OTHER -> c

\* str.lower
Lower(name) == [i \in 1..Len(name) |-> Lower1(name[i])]

\* sub in name
Contains(sub, name) ==
    \E i \in 0..(Len(name) - Len(sub)) : SubSeq(name, i + 1, i + Len(sub)) = sub

Categories == {"cpu", "battery", "system"}

CategoryText(c) ==
    CASE c = "cpu" -> <<"c", "p", "u">>
      [] c = "battery" -> <<"b", "a", "t", "t", "e", "r", "y">>
      [] c = "system" -> <<"s", "y", "s", "t", "e", "m">>

NameCPU == <<"C", "P", "U">>

NameCpu == <<"c", "p", "u">>

NameBattery == <<"B", "a", "t", "t", "e", "r", "y">>

NameSystem == <<"S", "y", "s", "t", "e", "m">>

NameGPU == <<"G", "P", "U">>

Sensor(type, name, value) == [SensorType |-> type, Name |-> name, Value |-> value]

\* the sensors the hardware monitor may report: several sensors of one
\* category, a name of two categories, a name of none, a sensor of another
\* type, an absent value, an absent name
SensorCatalogue ==
    { Sensor("Temperature", Some(NameCPU), Some(5000)),
      Sensor("Temperature", Some(NameCpu), Some(6000)),
      Sensor("Temperature", Some(NameCpu), None),
      Sensor("Temperature", Some(NameBattery), Some(3000)),
      Sensor("Temperature", Some(NameCPU \o <<" ">> \o NameBattery), Some(4000)),
      Sensor("Temperature", Some(NameSystem), Some(3500)),
      Sensor("Temperature", Some(NameGPU), Some(7000)),
      Sensor("Temperature", None, Some(5500)),
      Sensor("Load", Some(NameCPU), Some(9000)) }

SensorLists == UNION {[1..n -> SensorCatalogue] : n \in 0..MaxSensors}

NoTemperatures ==
    [cpu |-> None, battery |-> None, system |-> None, source |-> "fallback"]

\* lines 63-72: the body of the loop for one sensor whose name is present
ScanSensor(t, sensor) ==
    IF sensor.SensorType # "Temperature" THEN t
    ELSE LET name == Lower(Val(sensor.Name))
             value == sensor.Value
         IN  IF Contains(CategoryText("cpu"), name) /\ t.cpu = None
             THEN [t EXCEPT !.cpu = value]
             ELSE IF Contains(CategoryText("battery"), name) /\ t.battery = None
             THEN [t EXCEPT !.battery = value]
             ELSE IF Contains(CategoryText("system"), name) /\ t.system = None
             THEN [t EXCEPT !.system = value]
             ELSE t

\* sensor.Name.lower() raises when the name is absent
ScanRaises(sensor) == sensor.SensorType = "Temperature" /\ sensor.Name = None

RECURSIVE ScanSensors(_, _, _)
\* lines 62-74: the loop over sensors from index i on; it stops at the first
\* sensor that raises and keeps what it has assigned so far
ScanSensors(t, sensors, i) ==
    IF i > Len(sensors) THEN [t |-> [t EXCEPT !.source = "OpenHardwareMonitor"],
                              raised |-> FALSE]
    ELSE IF ScanRaises(sensors[i]) THEN [t |-> t, raised |-> TRUE]
    ELSE ScanSensors(ScanSensor(t, sensors[i]), sensors, i + 1)

\* what the ACPI thermal zone does, as <<kind, raw>>: the connection or the
\* query raises, it reports no zone, or the first zone reports a raw value in
\* tenths of Kelvin (which may be absent)
AcpiFailures == {<<"connect_raise", None>>, <<"query_raise", None>>}

AcpiRaw == {None, Some(3000), Some(3231)}

AcpiOutcomes == AcpiFailures \cup {<<"empty", None>>} \cup {<<"zone", raw>> : raw \in AcpiRaw}

AcpiNotRead == <<"not_read", None>>

\* lines 86-87: tenths of Kelvin to hundredths of a degree Celsius
KelvinToCelsius(raw) == raw * 10 - 27315

\* lines 80-92: the second provider; a raw value of None raises in the
\* division and leaves the temperatures as they are
ReadAcpi(t, acpi) ==
    IF acpi[1] # "zone" THEN t
    ELSE IF acpi[2] = None THEN t
    ELSE [t EXCEPT !.system = Some(KelvinToCelsius(Val(acpi[2]))),
                   !.source = "MSAcpi"]

FillMissingMutant(t) ==
    LET cpu == IF t.cpu = None THEN Some(4500) ELSE t.cpu
    IN  [t EXCEPT !.cpu = cpu,
                  !.battery = IF t.battery = None /\ t.cpu # None
                              THEN Some((Val(cpu) * 8) \div 10) ELSE @,
                  !.system = IF t.system = None
                             THEN Some((Val(cpu) * 7) \div 10) ELSE @]

\* lines 94-100: estimates for what is still missing
FillMissing(t) ==
    LET cpu == IF t.cpu = None THEN Some(4500) ELSE t.cpu
    IN  [t EXCEPT !.cpu = cpu,
                  !.battery = IF t.battery = None
                              THEN Some((Val(cpu) * 8) \div 10) ELSE @,
                  !.system = IF t.system = None
                             THEN Some((Val(cpu) * 7) \div 10) ELSE @]

\* lines 164-173: the simulated temperatures; base_temp is random in [30, 45]
FallbackTemperatureInfo(base_temp) ==
    [cpu |-> Some(base_temp),
     battery |-> Some((base_temp * 8) \div 10),
     system |-> Some((base_temp * 7) \div 10),
     source |-> "simulated"]

SimulatedBases == {3000, 3500, 4250, 4500}

\* what the hardware monitor does, as <<kind, sensors>>: Sensor() raises or
\* returns the sensor list
OhmRaise == <<"raise", << >> >>

\* lines 58-92: the two provider stages
ReadProviders(ohm, acpi) ==
    IF ohm[1] = "raise" THEN ReadAcpi(NoTemperatures, acpi)
    ELSE LET scan == ScanSensors(NoTemperatures, ohm[2], 1)
         IN  IF scan.raised THEN ReadAcpi(scan.t, acpi) ELSE scan.t

\* lines 46-102: one call of get_temperature_info
get_temperature_info(windows, client, ohm, acpi, base_temp) ==
    IF ~windows \/ client = "None" THEN FallbackTemperatureInfo(base_temp)
    ELSE FillMissing(ReadProviders(ohm, acpi))

\* the hardware-monitor stage of this call ends in an exception
OhmFails(ohm) ==
    \/ ohm[1] = "raise"
    \/ \E i \in 1..Len(ohm[2]) : ScanRaises(ohm[2][i])

\* a client bound to root\WMI has no Sensor class: Sensor() raises
OhmOutcomes(client) ==
    IF client = "OpenHardwareMonitor"
    THEN {OhmRaise} \cup {<<"list", sensors>> : sensors \in SensorLists}
    ELSE {OhmRaise}

GetTemperatureInfo ==
    \/ /\ ~is_windows \/ wmi_client = "None"
       /\ \E base_temp \in SimulatedBases :
            temperature' =
                [called |-> TRUE, provider |-> FALSE,
                 ohm |-> OhmRaise, acpi |-> AcpiNotRead,
                 read |-> NoTemperatures,
                 result |-> get_temperature_info(is_windows, wmi_client,
                                                 OhmRaise, AcpiNotRead, base_temp)]
       /\ UNCHANGED <<gemini, api, appended, is_windows, wmi_client, battery>>
    \/ /\ is_windows /\ wmi_client # "None"
       /\ \E ohm \in OhmOutcomes(wmi_client) :
            \E acpi \in IF OhmFails(ohm) THEN AcpiOutcomes ELSE {AcpiNotRead} :
                temperature' =
                    [called |-> TRUE, provider |-> TRUE,
                     ohm |-> ohm, acpi |-> acpi,
                     read |-> ReadProviders(ohm, acpi),
                     result |-> get_temperature_info(is_windows, wmi_client,
                                                     ohm, acpi, 3500)]
       /\ UNCHANGED <<gemini, api, appended, is_windows, wmi_client, battery>>

(***************************************************************************)
(* Specifications                                                          *)
(***************************************************************************)
Next == GetGeminiAdvice \/ GetAdvice \/ GetBatteryInfo \/ GetTemperatureInfo

Spec == Init /\ [][Next]_vars

\* the components share no state beyond the constructed SensorReader, so
\* each is checked on its own
SpecGemini == Init /\ [][GetGeminiAdvice]_vars

SpecAdvice == Init /\ [][GetAdvice]_vars

SpecBattery == Init /\ [][GetBatteryInfo]_vars

SpecTemperature == Init /\ [][GetTemperatureInfo]_vars

(***************************************************************************)
(* Properties                                                              *)
(***************************************************************************)
\* the input of the last get_gemini_advice call is in the danger range
GeminiDangerInput ==
    \/ gemini.battery_temp > 4500
    \/ gemini.cpu_temp # None /\ Val(gemini.cpu_temp) > 8500

\* the input of the last get_gemini_advice call is in the warning band
GeminiWarningInput ==
    /\ 3800 < gemini.battery_temp
    /\ gemini.battery_temp <= 4500
    /\ gemini.cpu_temp = None \/ Val(gemini.cpu_temp) <= 8500

\* C1: with batteryTemp > 45, or cpuTemp present and > 85, the advisory of
\* get_gemini_advice is "danger" on the primary path and on the fallback path.
C1_DangerOnEitherPath ==
    gemini.called /\ GeminiDangerInput => gemini.result.alert_level = "danger"

\* C2: the predicted_health_impact returned by /api/advice, and the one
\* get_gemini_advice returned to it, lie in [0, 0.15], whatever the inputs and
\* whatever the predictive model returns.
C2_ImpactInRange ==
    api.called =>
        /\ api.body # None =>
               Val(api.body).predicted_health_impact \in 0..15000
        /\ api.advice # None =>
               Val(api.advice).predicted_health_impact \in 0..15000

\* C3: a request whose predictive-model step fails still ends with a valid
\* advisory, whose impact is the deterministic rule score.
C3_ModelFailureSubstituted ==
    api.called /\ api.model \in ModelFailures =>
        /\ api.status = 200
        /\ api.body # None
        /\ Val(api.body).predicted_health_impact =
               Min(ImpactScore(api.battery_temp, api.device_state, api.cpu_temp), 15000)

\* C4: the history append is attempted only once the advisory exists, and a
\* failing append does not fail the request: the computed advisory is returned.
C4_AppendFailureNotPropagated ==
    api.called =>
        /\ api.append_tried => api.computed # None
        /\ api.append_tried /\ api.history = "raise" =>
               api.status = 200 /\ api.body = api.computed

\* C5: a call of get_gemini_advice invokes the external service at most once
\* and returns an advisory without raising; when the primary attempt fails the
\* advisory is (danger, "Stop charging and close heavy applications", 0.1) for
\* batteryTemp > 40 and (safe, no action, 0.02) otherwise, also for an absent
\* cpu_temp.
C5_FallbackNeverRaises ==
    gemini.called =>
        /\ gemini.calls <= 1
        /\ ~gemini.raised
        /\ gemini.service # "ok" =>
               /\ gemini.result.alert_level =
                      (IF gemini.battery_temp > 4000 THEN "danger" ELSE "safe")
               /\ gemini.result.optional_action =
                      (IF gemini.battery_temp > 4000
                       THEN Some("Stop charging and close heavy applications")
                       ELSE None)
               /\ gemini.result.predicted_health_impact =
                      (IF gemini.battery_temp > 4000 THEN 10000 ELSE 2000)

\* the fallback answered a request without cpu_temp and with batteryTemp just
\* above 40
C5_Witness ==
    /\ gemini.called
    /\ gemini.service = "call_raise"
    /\ gemini.cpu_temp = None
    /\ gemini.battery_temp = 4050
    /\ gemini.result.alert_level = "danger"

\* C6 as stated: with 38 < batteryTemp <= 45 and cpuTemp absent or <= 85 the
\* advisory returned is "warning".
C6_WarningBand ==
    gemini.called /\ GeminiWarningInput => gemini.result.alert_level = "warning"

\* C6 as amended: with 38 < batteryTemp <= 45 and cpuTemp absent or <= 85 the
\* advisory is "warning" when the external service call succeeded; when it
\* raised, the fallback's level is "danger" for batteryTemp > 40, else "safe".
C6_WarningBandPrimary ==
    gemini.called /\ GeminiWarningInput =>
        gemini.result.alert_level =
            (IF gemini.service = "ok" THEN "warning"
             ELSE IF gemini.battery_temp > 4000 THEN "danger" ELSE "safe")

\* the primary path answered a request just above 38 without cpu_temp
C6_Witness ==
    /\ gemini.called
    /\ gemini.service = "ok"
    /\ gemini.battery_temp = 3850
    /\ gemini.cpu_temp = None
    /\ gemini.result.alert_level = "warning"

\* C7: get_temperature_info returns cpu, battery and system all populated,
\* whatever the platform, the client, the outcome of the hardware monitor and
\* of the ACPI read, and the sensors reported.
C7_AllPopulated ==
    temperature.called =>
        /\ temperature.result.cpu # None
        /\ temperature.result.battery # None
        /\ temperature.result.system # None
        /\ temperature.result.source \in
               {"OpenHardwareMonitor", "MSAcpi", "fallback", "simulated"}

\* the hardware monitor was read, the loop raised on a sensor without a name,
\* the ACPI read failed too, and no provider supplied any value
C7_Witness ==
    /\ temperature.called
    /\ temperature.provider
    /\ temperature.ohm[1] = "list"
    /\ temperature.acpi \in AcpiFailures
    /\ temperature.read = NoTemperatures
    /\ temperature.result.cpu = Some(4500)
    /\ temperature.result.battery = Some(3600)

\* the temperature sensors of a list that carry a value and whose name
\* contains category c
Matching(sensors, c) ==
    {i \in 1..Len(sensors) :
        /\ sensors[i].SensorType = "Temperature"
        /\ sensors[i].Name # None
        /\ sensors[i].Value # None
        /\ Contains(CategoryText(c), Lower(Val(sensors[i].Name)))}

First(S) == CHOOSE i \in S : \A j \in S : i <= j

\* C8: after a successful hardware-monitor read, each category that some
\* temperature sensor's name contains reports the value of the first such
\* sensor, also when a name contains more than one category.
C8_FirstMatchPerCategory ==
    temperature.called /\ temperature.provider
        /\ temperature.result.source = "OpenHardwareMonitor" =>
        \A c \in Categories :
            LET S == Matching(temperature.ohm[2], c)
            IN  S # {} =>
                    temperature.result[c] = temperature.ohm[2][First(S)].Value

\* C9: the source names a provider stage only if that stage supplied one of
\* the returned values.
C9_SourceNamesSupplier ==
    temperature.called =>
        /\ temperature.result.source = "OpenHardwareMonitor" =>
               \E c \in Categories : temperature.read[c] # None
        /\ temperature.result.source = "MSAcpi" =>
               /\ temperature.acpi[1] = "zone"
               /\ temperature.read.system # None

\* C10: a reading is "simulated" exactly when it is synthetic: a provider
\* that throws or reports no battery gives level in [70, 95], status
\* "Unknown", source "simulated"; a reading tagged "WMI" carries the level the
\* provider reported, for every reported level 0..100.
C10_SimulatedIffSynthetic ==
    battery.called =>
        /\ battery.provider \in BatteryFailures \/ battery.provider[2] = << >> =>
               /\ Val(battery.result.level) \in 70..95
               /\ battery.result.status = "Unknown"
               /\ battery.result.source = "simulated"
        /\ battery.result.source = "WMI"
               /\ battery.provider[2][1].EstimatedChargeRemaining # None =>
               battery.result.level = battery.provider[2][1].EstimatedChargeRemaining
====
